---- MODULE Spec2Model ----
(***************************************************************************)
(* A model of tutel's sparse dispatch/combine engine                       *)
(* (src/tutel/impls/fast_dispatch.py) and of its differentiable            *)
(* collectives (src/tutel/impls/communicate.py).                           *)
(*                                                                         *)
(* Tensors are sequences of rows; rows of a dispatcher tensor are          *)
(* sequences of model_dim numbers.  The numbers are naturals; a cast to a   *)
(* precision rounds them as the precision does (Round), which keeps the    *)
(* small naturals the inputs are drawn from.  Rows of a tensor are         *)
(* numbered from 1: row r of the model is row r-1 of the program.          *)
(***************************************************************************)
EXTENDS Integers, Sequences, FiniteSets, TLC

\* ------------------------------------------------------------------ bounds
NumExperts == 2
ModelDim == 1
MaxCap == 2
MaxSample == 2
MaxK == 2
MaxEntries == 2
MaxGate == 2
MaxMass == 2
MaxUpdates == 3
MaxCodecUpdates == 2
MaxWorld == 3
MaxChunk == 1
MaxCommMass == 1
MaxReduceMass == 2
MaxModelDim == 2
MaxFill == 1
MaxConfigUpdates == 1
MaxStaleUpdates == 2
MaxPrecisionUpdates == 1
MaxRebindUpdates == 2

VARIABLES
  expected_sample_size, capacity, kernel_pool,
  func_fwd, func_bwd_data, func_bwd_gate, ones_helper,
  indices_, locations_, gates_,
  build_count, updates, last,
  num_global_experts, model_dim, dtype, original_dtype, aligned_dim, IS_HIP_EXTENSION,
  call, uninit,
  world_size, initialized, has_all_to_all_single, A2A_TYPE, a2a_type, prepared, handle, comm

\* What __init__ fixes: the expert count, the width, the precisions.
pvars == <<num_global_experts, model_dim, dtype, original_dtype, aligned_dim, IS_HIP_EXTENSION>>

dvars == <<expected_sample_size, capacity, kernel_pool,
           func_fwd, func_bwd_data, func_bwd_gate, ones_helper,
           indices_, locations_, gates_, build_count, updates, last,
           pvars, call, uninit>>

cvars == <<world_size, initialized, has_all_to_all_single, A2A_TYPE, a2a_type, prepared,
           handle, comm>>

vars == <<dvars, cvars>>

\* ------------------------------------------------------------ tensor helpers
ZeroRow == [c \in 1..model_dim |-> 0]

RowAdd(a, b) == [c \in 1..Len(a) |-> a[c] + b[c]]

RowScale(g, a) == [c \in 1..Len(a) |-> g * a[c]]

Zeros(n) == [r \in 1..n |-> ZeroRow]

TensorAdd(a, b) == [r \in 1..Len(a) |-> RowAdd(a[r], b[r])]

RECURSIVE SumSeq(_)
SumSeq(s) == IF s = <<>> THEN 0 ELSE s[1] + SumSeq(Tail(s))

RowMass(a) == SumSeq(a)

Mass(t) == SumSeq([r \in 1..Len(t) |-> RowMass(t[r])])

\* The flat sequences of n naturals whose total is at most m.
RECURSIVE Flat(_, _)
Flat(n, m) ==
  IF n <= 0 THEN {<<>>}
  ELSE UNION {{<<v>> \o s : s \in Flat(n - 1, m - v)} : v \in 0..m}

Reshape(f, n, w) == [r \in 1..n |-> [c \in 1..w |-> f[(r - 1) * w + c]]]

\* The widths a dispatcher is constructed with.
Widths == 1..(IF ModelDim > MaxModelDim THEN ModelDim ELSE MaxModelDim)

\* The tensors a caller may pass, by width and number of rows.
TensorTable ==
  [w \in Widths |->
     [n \in 0..(NumExperts * MaxCap + MaxSample) |->
        {Reshape(f, n, w) : f \in Flat(n * w, MaxMass)}]]

Tensors(n) == IF n < 0 THEN {} ELSE TensorTable[model_dim][n]

\* ------------------------------------------------------- routing assignments
Shapes == {ks \in (1..MaxK) \X (1..MaxSample) : ks[1] * ks[2] <= MaxEntries}

AssignmentsOf(K, S) ==
  [indices : [1..K -> [1..S -> 0..(NumExperts - 1)]],
   locations : [1..K -> [1..S -> 0..MaxCap]],
   gates : [1..K -> [1..S -> 1..MaxGate]]]

Assignments == UNION {AssignmentsOf(ks[1], ks[2]) : ks \in Shapes}

\* update's capacity argument: <<>> when omitted, <<c>> when given.
CapArgs == {<<>>} \cup {<<c>> : c \in 1..MaxCap}

\* ---------------------------------------------------------------- precision
\* torch.float16, torch.bfloat16, torch.float32.
Precisions == {"float16", "bfloat16", "float32"}

\* The largest n such that every integer of 0..n is a value of the precision.
ExactUpTo(dt) == IF dt = "float16" THEN 2048 ELSE IF dt = "bfloat16" THEN 256 ELSE 16777216

\* x.to(dt) of one number: itself when the precision holds it, else the nearest
\* value of the precision, ties to even (the values next to ExactUpTo are 2 apart).
Round(v, dt) ==
  IF v <= ExactUpTo(dt) \/ v % 2 = 0 THEN v
  ELSE IF ((v - 1) \div 2) % 2 = 0 THEN v - 1 ELSE v + 1

\* x.to(dt) of a tensor.
To(t, dt) == [r \in 1..Len(t) |-> [c \in 1..Len(t[r]) |-> Round(t[r][c], dt)]]

\* --------------------------------------------------------------- jit kernels
Unset == [kind |-> "unset", sample_size |-> -1, num_experts |-> -1, capacity |-> -1,
          aligned_dim |-> -1, dtype |-> "none", build |-> 0]

create_forward(sample_size, num_experts, cap, aligned, dt, build) ==
  [kind |-> "forward", sample_size |-> sample_size, num_experts |-> num_experts,
   capacity |-> cap, aligned_dim |-> aligned, dtype |-> dt, build |-> build]

create_backward_data(sample_size, num_experts, cap, aligned, dt, build) ==
  [kind |-> "backward_data", sample_size |-> sample_size, num_experts |-> num_experts,
   capacity |-> cap, aligned_dim |-> aligned, dtype |-> dt, build |-> build]

create_backward_gate(sample_size, num_experts, cap, aligned, dt, build) ==
  [kind |-> "backward_gate", sample_size |-> sample_size, num_experts |-> num_experts,
   capacity |-> cap, aligned_dim |-> aligned, dtype |-> dt, build |-> build]

\* The columns a kernel works on: aligned_dim lanes, of two numbers each in half
\* precision.
Covered(k) == k.aligned_dim * (IF k.dtype = "float16" THEN 2 ELSE 1)

\* The forward kernel: output[indices[t]*capacity + locations[t]] += gates[t] * input[t]
\* for every token t whose location is within the capacity, on the columns the
\* kernel works on.
RECURSIVE RunForward(_, _, _, _, _, _, _)
RunForward(k, gates, indices, locations, input, output, t) ==
  IF t > k.sample_size THEN output
  ELSE LET r == indices[t] * k.capacity + locations[t] + 1
           nxt == IF locations[t] < k.capacity
                  THEN [output EXCEPT ![r] =
                          [c \in 1..Len(@) |->
                             IF c <= Covered(k) THEN @[c] + gates[t] * input[t][c] ELSE @[c]]]
                  ELSE output
       IN RunForward(k, gates, indices, locations, input, nxt, t + 1)

\* The backward-data kernel: grad[t] = gates[t] * dispatched[indices[t]*capacity + locations[t]],
\* a zero row for a token whose location is beyond the capacity.  It writes into a
\* torch.empty buffer: a column the kernel does not work on keeps what the buffer
\* held.
RunBackwardData(k, gates, dispatched, indices, locations) ==
  [t \in 1..k.sample_size |->
     [c \in 1..model_dim |->
        IF c > Covered(k) THEN uninit
        ELSE IF locations[t] < k.capacity
             THEN gates[t] * dispatched[indices[t] * k.capacity + locations[t] + 1][c]
             ELSE 0]]

\* The backward-gate kernel: grad_gates[t] = <dispatched[indices[t]*capacity + locations[t]],
\* grad[t]>, zero for a token whose location is beyond the capacity.
RunBackwardGate(k, dispatched, indices, locations, grad) ==
  [t \in 1..k.sample_size |->
     IF locations[t] < k.capacity
     THEN SumSeq([c \in 1..model_dim |->
            IF c <= Covered(k)
            THEN dispatched[indices[t] * k.capacity + locations[t] + 1][c] * grad[t][c]
            ELSE 0])
     ELSE 0]

\* ------------------------------------------------------------- GatingEncoder
RECURSIVE EncoderForwardLoop(_, _, _)
EncoderForwardLoop(reshaped_input, dispatched_input, i) ==
  IF i > Len(indices_) THEN dispatched_input
  ELSE EncoderForwardLoop(reshaped_input,
         RunForward(func_fwd, ones_helper, indices_[i], locations_[i],
                    reshaped_input, dispatched_input, 1),
         i + 1)

GatingEncoder_forward_first(reshaped_input) ==
  RunForward(func_fwd, ones_helper, indices_[1], locations_[1], reshaped_input,
             Zeros(num_global_experts * capacity), 1)

GatingEncoder_forward_loc0(reshaped_input) ==
  LET step(i, buf) == RunForward(func_fwd, ones_helper, indices_[i], locations_[1],
                                 reshaped_input, buf, 1)
  IN IF Len(indices_) = 1 THEN step(1, Zeros(num_global_experts * capacity))
     ELSE step(2, step(1, Zeros(num_global_experts * capacity)))

GatingEncoder_forward(reshaped_input) ==
  EncoderForwardLoop(reshaped_input, Zeros(num_global_experts * capacity), 1)

RECURSIVE EncoderBackwardLoop(_, _, _)
EncoderBackwardLoop(dispatched_input, last_result, i) ==
  IF i > Len(indices_) THEN last_result
  ELSE LET grad_data == RunBackwardData(func_bwd_data, ones_helper, dispatched_input,
                                        indices_[i], locations_[i])
       IN EncoderBackwardLoop(dispatched_input,
            IF last_result = <<>> THEN grad_data ELSE TensorAdd(last_result, grad_data),
            i + 1)

GatingEncoder_backward(dispatched_input) ==
  EncoderBackwardLoop(dispatched_input, <<>>, 1)

\* ------------------------------------------------------------- GatingDecoder
RECURSIVE DecoderForwardLoop(_, _, _, _)
DecoderForwardLoop(expert_output, gates, last_result, i) ==
  IF i > Len(indices_) THEN last_result
  ELSE LET single_output == RunBackwardData(func_bwd_data, gates[i], expert_output,
                                            indices_[i], locations_[i])
       IN DecoderForwardLoop(expert_output, gates,
            IF last_result = <<>> THEN single_output ELSE TensorAdd(last_result, single_output),
            i + 1)

GatingDecoder_forward_overwrite(expert_output, gates) ==
  RunBackwardData(func_bwd_data, gates[Len(indices_)], expert_output,
                  indices_[Len(indices_)], locations_[Len(indices_)])

GatingDecoder_forward_ones(expert_output, gates) ==
  DecoderForwardLoop(expert_output, [i \in 1..Len(indices_) |-> ones_helper], <<>>, 1)

GatingDecoder_forward(expert_output, gates) ==
  DecoderForwardLoop(expert_output, gates, <<>>, 1)

RECURSIVE DecoderBackwardLoop(_, _, _, _)
DecoderBackwardLoop(gates_h2, combined_output, grad_expert_output, i) ==
  IF i > Len(indices_) THEN grad_expert_output
  ELSE DecoderBackwardLoop(gates_h2, combined_output,
         RunForward(func_fwd, gates_h2[i], indices_[i], locations_[i],
                    combined_output, grad_expert_output, 1),
         i + 1)

\* GatingDecoder.backward, given what ctx keeps of the forward (expert_output and
\* gates_h2): the gradient of expert_output and the gradients of the gates.
GatingDecoder_backward(expert_output, gates_h2, combined_output) ==
  [grad_expert_output |->
     DecoderBackwardLoop(gates_h2, combined_output,
                         [r \in 1..Len(expert_output) |-> ZeroRow], 1),
   grad_gates |->
     [i \in 1..Len(indices_) |->
        RunBackwardGate(func_bwd_gate, expert_output, indices_[i], locations_[i],
                        combined_output)]]

\* ---------------------------------------------------- TutelMoeFastDispatcher
\* The dispatcher as an autograd function sees it through ctx.config.
Config ==
  [indices |-> indices_, locations |-> locations_, gates |-> gates_,
   capacity |-> capacity, sample_size |-> expected_sample_size,
   num_experts |-> num_global_experts,
   fwd |-> func_fwd, bwd_data |-> func_bwd_data, bwd_gate |-> func_bwd_gate,
   ones |-> ones_helper]

NoOp == [op |-> "none", in |-> <<>>, out |-> <<>>, pre |-> <<>>, dtype |-> "none",
         ctx |-> <<>>, cfg |-> <<>>, aux |-> <<>>]

WorkingPrecision_ignores_hip(dispatch_dtype, hip) ==
  IF dispatch_dtype # "float16" THEN "float32" ELSE dispatch_dtype

\* self.dtype: dispatch_dtype, but float32 if IS_HIP_EXTENSION or dispatch_dtype
\* != torch.float16.
WorkingPrecision(dispatch_dtype, hip) ==
  IF hip \/ dispatch_dtype # "float16" THEN "float32" ELSE dispatch_dtype

\* TutelMoeFastDispatcher(num_global_experts, capacity, model_dim, dispatch_dtype),
\* in a build where IS_HIP_EXTENSION is hip.
Construct(n, cap, md, dispatch_dtype, hip) ==
  /\ IS_HIP_EXTENSION = hip
  /\ expected_sample_size = -1
  /\ num_global_experts = n
  /\ capacity = cap
  /\ model_dim = md
  /\ kernel_pool = <<>>
  /\ dtype = WorkingPrecision(dispatch_dtype, hip)
  /\ original_dtype = dispatch_dtype
  /\ aligned_dim = md \div (IF dtype = "float16" THEN 2 ELSE 1)
  /\ func_fwd = Unset
  /\ func_bwd_data = Unset
  /\ func_bwd_gate = Unset
  /\ ones_helper = <<>>
  /\ indices_ = <<>>
  /\ locations_ = <<>>
  /\ gates_ = <<>>
  /\ build_count = 0
  /\ updates = 0
  /\ last = NoOp
  /\ call = [op |-> "init", cap |-> <<cap>>, raised |-> FALSE]
  /\ uninit = 0

DispatcherInit ==
  \E cap \in 1..MaxCap : Construct(NumExperts, cap, ModelDim, "float32", FALSE)

Installed == indices_ # <<>>

CacheHit_never(key) == FALSE

\* tuple((sample_size, capacity)) in self.kernel_pool
CacheHit(key) == key \in DOMAIN kernel_pool

EffectiveCapacity_default(cap) == IF cap = <<>> THEN 1 ELSE IF cap[1] = 0 THEN 1 ELSE cap[1]

\* capacity or self.capacity
EffectiveCapacity(cap) == IF cap = <<>> THEN capacity ELSE IF cap[1] = 0 THEN capacity ELSE cap[1]

Lookup_stale(key) == <<func_fwd, func_bwd_data, func_bwd_gate, ones_helper>>

\* self.kernel_pool[tuple((sample_size, capacity))]
Lookup(key) == kernel_pool[key]

Update(a, cap) ==
  LET sample_size == Len(a.indices[1])
      c == EffectiveCapacity(cap)
      key == <<sample_size, c>>
  IN /\ indices_' = a.indices
     /\ locations_' = a.locations
     /\ gates_' = [i \in 1..Len(a.gates) |->
                     [t \in 1..Len(a.gates[i]) |-> Round(a.gates[i][t], dtype)]]
     /\ updates' = updates + 1
     /\ call' = [op |-> "update", cap |-> cap, raised |-> FALSE]
     /\ UNCHANGED <<last, pvars, uninit, cvars>>
     /\ IF sample_size # expected_sample_size \/ c # capacity
        THEN /\ expected_sample_size' = sample_size
             /\ capacity' = c
             /\ IF ~CacheHit(key)
                THEN /\ build_count' = build_count + 1
                     /\ func_fwd' = create_forward(sample_size, num_global_experts, c,
                                                   aligned_dim, dtype, build_count + 1)
                     /\ func_bwd_data' = create_backward_data(sample_size, num_global_experts, c,
                                                              aligned_dim, dtype, build_count + 1)
                     /\ func_bwd_gate' = create_backward_gate(sample_size, num_global_experts, c,
                                                              aligned_dim, dtype, build_count + 1)
                     /\ ones_helper' = [t \in 1..sample_size |-> 1]
                     /\ kernel_pool' = [k \in DOMAIN kernel_pool \cup {key} |->
                                          IF k = key
                                          THEN <<func_fwd', func_bwd_data', func_bwd_gate', ones_helper'>>
                                          ELSE kernel_pool[k]]
                ELSE /\ func_fwd' = Lookup(key)[1]
                     /\ func_bwd_data' = Lookup(key)[2]
                     /\ func_bwd_gate' = Lookup(key)[3]
                     /\ ones_helper' = Lookup(key)[4]
                     /\ UNCHANGED <<kernel_pool, build_count>>
        ELSE UNCHANGED <<expected_sample_size, capacity, kernel_pool, func_fwd,
                         func_bwd_data, func_bwd_gate, ones_helper, build_count>>

UpdateStep == \E a \in Assignments, cap \in CapArgs : Update(a, cap)

\* What a call that leaves the dispatcher's fields alone leaves alone.
Fields == <<expected_sample_size, capacity, kernel_pool, func_fwd, func_bwd_data,
            func_bwd_gate, ones_helper, indices_, locations_, gates_, build_count,
            updates, pvars>>

\* What a torch.empty buffer may hold after this call: anything, where the
\* kernels in use leave columns unwritten.
Refill ==
  uninit' \in (IF Covered(func_bwd_data) >= model_dim THEN {uninit} ELSE 0..MaxFill)

\* encode(data): the scatter of the tokens into the dispatch buffer.
Encode(data) ==
  /\ Installed
  /\ last' = [op |-> "encode", in |-> data,
              out |-> To(GatingEncoder_forward(To(data, dtype)), original_dtype),
              pre |-> <<>>, dtype |-> original_dtype,
              ctx |-> [reshaped_input |-> To(data, dtype)], cfg |-> Config, aux |-> <<>>]
  /\ call' = [op |-> "encode", cap |-> <<>>, raised |-> FALSE]
  /\ UNCHANGED <<Fields, uninit>>
  /\ UNCHANGED cvars

EncodeStep == Installed /\ \E data \in Tensors(expected_sample_size) : Encode(data)

\* The backward of the encode that ran last, applied to a gradient of the buffer.
EncodeBackward(grad) ==
  /\ Installed
  /\ last.op = "encode"
  /\ last' = [op |-> "encode_backward", in |-> grad, out |-> GatingEncoder_backward(grad),
              pre |-> last.in, dtype |-> last.dtype, ctx |-> last.ctx, cfg |-> last.cfg,
              aux |-> <<>>]
  /\ call' = [op |-> "encode_backward", cap |-> <<>>, raised |-> FALSE]
  /\ Refill
  /\ UNCHANGED Fields
  /\ UNCHANGED cvars

EncodeBackwardStep ==
  Installed /\ \E grad \in Tensors(num_global_experts * capacity) : EncodeBackward(grad)

\* decode(data): the weighted gather back to token order.  pre records the tokens
\* whose encoding is being decoded, when data is what the last encode returned.
Decode(data) ==
  /\ Installed
  /\ last' = [op |-> "decode", in |-> data,
              out |-> To(GatingDecoder_forward(To(data, dtype), gates_), original_dtype),
              pre |-> IF last.op = "encode" /\ data = last.out THEN last.in ELSE <<>>,
              dtype |-> original_dtype,
              ctx |-> [expert_output |-> To(data, dtype), gates_h2 |-> gates_],
              cfg |-> Config, aux |-> <<>>]
  /\ call' = [op |-> "decode", cap |-> <<>>, raised |-> FALSE]
  /\ Refill
  /\ UNCHANGED Fields
  /\ UNCHANGED cvars

DecodeStep ==
  Installed /\ \E data \in Tensors(num_global_experts * capacity)
                             \cup (IF last.op = "encode" THEN {last.out} ELSE {}) :
    Decode(data)

\* The backward of the decode that ran last, applied to a gradient of its result.
DecodeBackward(grad) ==
  LET g == GatingDecoder_backward(last.ctx.expert_output, last.ctx.gates_h2, grad)
  IN /\ Installed
     /\ last.op = "decode"
     /\ last' = [op |-> "decode_backward", in |-> grad, out |-> g.grad_expert_output,
                 pre |-> last.in, dtype |-> last.dtype, ctx |-> last.ctx, cfg |-> last.cfg,
                 aux |-> g.grad_gates]
     /\ call' = [op |-> "decode_backward", cap |-> <<>>, raised |-> FALSE]
     /\ UNCHANGED <<Fields, uninit>>
     /\ UNCHANGED cvars

DecodeBackwardStep ==
  Installed /\ last.op = "decode" /\ \E grad \in Tensors(expected_sample_size) : DecodeBackward(grad)

\* ------------------------------------------------------- torch.distributed
\* The processes are the ranks 0..world_size-1; a group is a set of ranks, and a
\* collective on a group is called by its members together.  A tensor of the
\* collectives is the sequence of its slices along the leading dimension.
World == 0..(world_size - 1)

Groups == (SUBSET World) \ {{}}

A2ATypes == {0, 1, 2, 3, 8, 9, 10}

Bit(t, b) == (t \div b) % 2

\* t ^ 3
Xor3(t) == t + (1 - 2 * Bit(t, 1)) + 2 * (1 - 2 * Bit(t, 2))

RankIn(G, w) == Cardinality({v \in G : v < w})

MemberAt(G, j) == CHOOSE w \in G : RankIn(G, w) = j

get_world_size(G) == IF initialized THEN Cardinality(G) ELSE 1

get_world_rank(G, w) == IF initialized THEN RankIn(G, w) ELSE 0

RECURSIVE Concat(_)
Concat(ss) == IF ss = <<>> THEN <<>> ELSE ss[1] \o Concat(Tail(ss))

\* torch.chunk(t, P, dim=0)[j] of a tensor whose leading dimension P divides.
Chunk(t, j, P) == SubSeq(t, j * (Len(t) \div P) + 1, (j + 1) * (Len(t) \div P))

RECURSIVE SeqSum(_, _)
SeqSum(ss, n) ==
  IF ss = <<>> THEN [k \in 1..n |-> 0]
  ELSE [k \in 1..n |-> ss[1][k] + SeqSum(Tail(ss), n)[k]]

Dot(a, b) == SumSeq([k \in 1..Len(a) |-> a[k] * b[k]])

\* The sum over the members of G of <a[w], b[w]>.
Inner(G, a, b) == SumSeq([j \in 1..Cardinality(G) |-> Dot(a[MemberAt(G, j - 1)], b[MemberAt(G, j - 1)])])

\* dist.all_to_all_single(output, input, group): chunk j of the output of a member
\* is the chunk of member j's input that has the member's own rank.
all_to_all_single(G, x) ==
  [w \in G |-> Concat([j \in 1..Cardinality(G) |->
                 Chunk(x[MemberAt(G, j - 1)], RankIn(G, w), Cardinality(G))])]

\* tutel_custom_kernel.external_all2all(input, -1): the same exchange, over the
\* handle the negotiation installed.
external_all2all(G, x) ==
  [w \in G |-> Concat([j \in 1..Cardinality(G) |->
                 Chunk(x[MemberAt(G, j - 1)], RankIn(G, w), Cardinality(G))])]

\* dist.all_gather(tensor_list, tensor): every member gets every member's tensor,
\* in rank order.
all_gather(G, x) ==
  [w \in G |-> Concat([j \in 1..Cardinality(G) |-> x[MemberAt(G, j - 1)]])]

\* dist.reduce_scatter(output, input_list): a member gets the sum over the members
\* of the chunk that has the member's own rank.
reduce_scatter(G, x) ==
  [w \in G |-> SeqSum([j \in 1..Cardinality(G) |->
                         Chunk(x[MemberAt(G, j - 1)], RankIn(G, w), Cardinality(G))],
                      Len(x[w]) \div Cardinality(G))]

\* The flat sequences the collectives' inputs are cut from, by length.
FlatInputs ==
  [m \in {MaxCommMass, MaxReduceMass} |->
     [n \in 0..(MaxWorld * MaxWorld * MaxChunk) |-> Flat(n, m)]]

\* The tensors the members of G pass to one call, each of len slices, of total
\* at most m.
JointInputs(G, len, m) ==
  {[w \in G |-> SubSeq(f, RankIn(G, w) * len + 1, (RankIn(G, w) + 1) * len)] :
     f \in FlatInputs[m][Cardinality(G) * len]}

NoPrims(G) == [w \in G |-> <<>>]

\* ------------------------------------------------------------------ AllToAll
\* What AllToAll.forward does in process w, called on group G: the backend
\* selection it leaves, whether it negotiates the handle, the route its exchange
\* takes and the primitives it issues.
Negotiates_any_size(ty, size) == Bit(ty, 2) = 1

\* (AllToAll.a2a_type & 2) == 2 and get_world_size(group) > 1
Negotiates(ty, size) == Bit(ty, 2) = 1 /\ size > 1

\* AllToAll.forward in process w on group G, AllToAll.a2a_type being sel.
AllToAll_forward_with(w, G, sel) ==
  LET ty == IF ~prepared[w] /\ ~has_all_to_all_single /\ Bit(sel, 1) = 1
            THEN Xor3(sel) ELSE sel
      size == get_world_size(G)
      negotiate == ~prepared[w] /\ Negotiates(ty, size)
      route == IF size <= 1 \/ ty = 0 THEN "pass"
               ELSE IF Bit(ty, 1) = 1 THEN "standard" ELSE "external"
      timed == route # "pass" /\ Bit(ty, 8) = 1
  IN [a2a_type |-> ty, negotiate |-> negotiate, route |-> route,
      issued |-> (IF negotiate
                  THEN (IF get_world_rank(G, w) = 0 THEN <<"external_all2all(0)">> ELSE <<>>)
                       \o <<"broadcast", "external_all2all(1)">>
                  ELSE <<>>)
                 \o (IF timed THEN <<"synchronize">> ELSE <<>>)
                 \o (IF route = "standard" THEN <<"all_to_all_single">>
                     ELSE IF route = "external" THEN <<"external_all2all(-1)">> ELSE <<>>)
                 \o (IF timed THEN <<"synchronize">> ELSE <<>>)
                 \o (IF timed /\ get_world_rank(G, w) = 0 THEN <<"logging.info">> ELSE <<>>)]

\* The members of G call AllToAll.apply(G, x[w]) together.  The broadcast of the
\* negotiation completes when every member issues it and its source, rank 0 of
\* the world, is a member; the exchange completes when every member takes the
\* same route and, on the external route, holds the handle of this group.
\* Otherwise the call does not return (status "failed").
AllToAll_forward(w, G) == AllToAll_forward_with(w, G, a2a_type[w])

AllToAll_apply_with(G, x, sel) ==
  LET plan == [w \in G |-> AllToAll_forward_with(w, G, sel[w])]
      neg == {w \in G : plan[w].negotiate}
      negOK == neg = {} \/ (neg = G /\ 0 \in G)
      handle1 == [w \in World |-> IF w \in neg /\ negOK THEN G ELSE handle[w]]
      routes == {plan[w].route : w \in G}
      exchOK == /\ Cardinality(routes) = 1
                /\ routes = {"external"} => \A w \in G : handle1[w] = G
      ok == negOK /\ exchOK
  IN [status |-> IF ok THEN "ok" ELSE "failed",
      out |-> IF ~ok THEN <<>>
              ELSE IF routes = {"pass"} THEN x
              ELSE IF routes = {"standard"} THEN all_to_all_single(G, x)
              ELSE external_all2all(G, x),
      issued |-> [w \in G |-> plan[w].issued],
      a2a_type |-> [w \in World |-> IF w \in G THEN plan[w].a2a_type ELSE sel[w]],
      prepared |-> [w \in World |-> w \in G \/ prepared[w]],
      handle |-> handle1]

AllToAll_apply(G, x) == AllToAll_apply_with(G, x, a2a_type)

AllToAll_backward_identity(G, grad_output) ==
  [AllToAll_apply(G, grad_output) EXCEPT !.out = grad_output]

\* AllToAll.backward: the forward, on the group the context kept.
AllToAll_backward(G, grad_output) == AllToAll_apply(G, grad_output)

\* ----------------------------------------------- PreAllreduceSum / PostAllreduceSum
\* The collectives of these two functions are issued without a group argument, on
\* the default group: they complete when the members of G are the whole world.
PreAllreduceSum_forward(G, x) ==
  IF get_world_size(G) <= 1 THEN [status |-> "ok", out |-> x, issued |-> NoPrims(G)]
  ELSE [status |-> IF G = World THEN "ok" ELSE "failed",
        out |-> IF G = World THEN all_gather(G, x) ELSE <<>>,
        issued |-> [w \in G |-> <<"all_gather">>]]

PreAllreduceSum_backward_own_chunk(G, doutput) ==
  IF get_world_size(G) <= 1 THEN [status |-> "ok", out |-> doutput, issued |-> NoPrims(G)]
  ELSE [status |-> IF G = World THEN "ok" ELSE "failed",
        out |-> IF G = World
                THEN [w \in G |-> Chunk(doutput[w], RankIn(G, w), Cardinality(G))]
                ELSE <<>>,
        issued |-> [w \in G |-> <<"reduce_scatter">>]]

PreAllreduceSum_backward(G, doutput) ==
  IF get_world_size(G) <= 1 THEN [status |-> "ok", out |-> doutput, issued |-> NoPrims(G)]
  ELSE [status |-> IF G = World THEN "ok" ELSE "failed",
        out |-> IF G = World THEN reduce_scatter(G, doutput) ELSE <<>>,
        issued |-> [w \in G |-> <<"reduce_scatter">>]]

PostAllreduceSum_forward(G, x) ==
  IF get_world_size(G) <= 1 THEN [status |-> "ok", out |-> x, issued |-> NoPrims(G)]
  ELSE [status |-> IF G = World THEN "ok" ELSE "failed",
        out |-> IF G = World THEN reduce_scatter(G, x) ELSE <<>>,
        issued |-> [w \in G |-> <<"reduce_scatter">>]]

PostAllreduceSum_backward(G, doutput) ==
  IF get_world_size(G) <= 1 THEN [status |-> "ok", out |-> doutput, issued |-> NoPrims(G)]
  ELSE [status |-> IF G = World THEN "ok" ELSE "failed",
        out |-> IF G = World THEN all_gather(G, doutput) ELSE <<>>,
        issued |-> [w \in G |-> <<"all_gather">>]]

\* ------------------------------------------------------------ communication
NoComm == [op |-> "none", group |-> {}, status |-> "ok", in |-> <<>>, out |-> <<>>,
           issued |-> <<>>, fin |-> <<>>, fout |-> <<>>]

CommInit ==
  /\ world_size \in 1..MaxWorld
  /\ initialized \in BOOLEAN
  /\ ~initialized => world_size = 1
  /\ has_all_to_all_single \in BOOLEAN
  /\ A2A_TYPE \in A2ATypes
  /\ a2a_type = [w \in World |-> A2A_TYPE]
  /\ prepared = [w \in World |-> FALSE]
  /\ handle = [w \in World |-> {}]
  /\ comm = NoComm

Running == comm.status = "ok"

\* The input lengths a group of P members splits evenly.
Balanced(G) == {Cardinality(G) * c : c \in 1..MaxChunk}

\* all_to_all(G, x).  fin/fout keep the call before, when x is what it returned
\* on the same group.
AllToAllForward(G, x) ==
  LET again == comm.op = "all_to_all" /\ comm.group = G /\ comm.out = x
  IN \E r \in {AllToAll_apply(G, x)} :
     /\ Running
     /\ comm' = [op |-> "all_to_all", group |-> G, status |-> r.status, in |-> x,
                 out |-> r.out, issued |-> r.issued,
                 fin |-> IF again THEN comm.in ELSE <<>>,
                 fout |-> IF again THEN comm.out ELSE <<>>]
     /\ a2a_type' = r.a2a_type
     /\ prepared' = r.prepared
     /\ handle' = r.handle
     /\ UNCHANGED <<world_size, initialized, has_all_to_all_single, A2A_TYPE>>
     /\ UNCHANGED dvars

AllToAllForwardStep ==
  Running /\ \E G \in Groups : \E len \in Balanced(G) : \E x \in JointInputs(G, len, MaxCommMass) :
    AllToAllForward(G, x)

\* The backward of the all_to_all that ran last.
AllToAllBackward(grad) ==
  LET G == comm.group
  IN \E r \in {AllToAll_backward(G, grad)} :
     /\ Running
     /\ comm.op = "all_to_all"
     /\ comm' = [op |-> "all_to_all_backward", group |-> G, status |-> r.status,
                 in |-> grad, out |-> r.out, issued |-> r.issued,
                 fin |-> comm.in, fout |-> comm.out]
     /\ a2a_type' = r.a2a_type
     /\ prepared' = r.prepared
     /\ handle' = r.handle
     /\ UNCHANGED <<world_size, initialized, has_all_to_all_single, A2A_TYPE>>
     /\ UNCHANGED dvars

AllToAllBackwardStep ==
  Running /\ comm.op = "all_to_all" /\
    \E grad \in JointInputs(comm.group, Len(comm.in[MemberAt(comm.group, 0)]), MaxCommMass) :
      AllToAllBackward(grad)

Record(op, G, x, res, fin, fout) ==
  \E r \in {res} :
  /\ comm' = [op |-> op, group |-> G, status |-> r.status, in |-> x, out |-> r.out,
              issued |-> r.issued, fin |-> fin, fout |-> fout]
  /\ UNCHANGED <<world_size, initialized, has_all_to_all_single, A2A_TYPE, a2a_type,
                 prepared, handle>>
  /\ UNCHANGED dvars

\* pre_allreduce(G, x): expand.
Expand(G, x) == Running /\ Record("expand", G, x, PreAllreduceSum_forward(G, x), <<>>, <<>>)

ExpandOn(GS) ==
  Running /\ \E G \in GS : \E len \in 1..MaxChunk : \E x \in JointInputs(G, len, MaxReduceMass) :
    Expand(G, x)

ExpandStep == ExpandOn(Groups)

ExpandBackward(doutput) ==
  /\ Running
  /\ comm.op = "expand"
  /\ Record("expand_backward", comm.group, doutput,
            PreAllreduceSum_backward(comm.group, doutput), comm.in, comm.out)

ExpandBackwardStep ==
  Running /\ comm.op = "expand" /\
    \E doutput \in JointInputs(comm.group, Len(comm.out[MemberAt(comm.group, 0)]), MaxReduceMass) :
      ExpandBackward(doutput)

\* post_allreduce(G, x): contract.  fin/fout keep the expand before, when x is
\* what it returned on the same group.
Contract(G, x) ==
  LET after == comm.op = "expand" /\ comm.group = G /\ comm.out = x
  IN /\ Running
     /\ Record("contract", G, x, PostAllreduceSum_forward(G, x),
               IF after THEN comm.in ELSE <<>>, IF after THEN comm.out ELSE <<>>)

ContractOn(GS) ==
  Running /\ \E G \in GS :
    \E x \in (UNION {JointInputs(G, len, MaxReduceMass) : len \in Balanced(G)})
             \cup (IF comm.op = "expand" /\ comm.group = G THEN {comm.out} ELSE {}) :
      Contract(G, x)

ContractStep == ContractOn(Groups)

ContractBackward(doutput) ==
  /\ Running
  /\ comm.op = "contract"
  /\ Record("contract_backward", comm.group, doutput,
            PostAllreduceSum_backward(comm.group, doutput), comm.in, comm.out)

ContractBackwardStep ==
  Running /\ comm.op = "contract" /\
    \E doutput \in JointInputs(comm.group, Len(comm.out[MemberAt(comm.group, 0)]), MaxReduceMass) :
      ContractBackward(doutput)

\* ----------------------------------------------------------- specifications
\* A run of the collectives: no dispatcher call is made.
CommIdle ==
  /\ world_size = 1
  /\ initialized = TRUE
  /\ has_all_to_all_single = TRUE
  /\ A2A_TYPE = 1
  /\ a2a_type = [w \in World |-> 1]
  /\ prepared = [w \in World |-> FALSE]
  /\ handle = [w \in World |-> {}]
  /\ comm = NoComm

Init == DispatcherInit /\ CommIdle

NextUpdate == updates < MaxUpdates /\ UpdateStep

SpecUpdate == Init /\ [][NextUpdate]_vars

\* One forward pass: the routing is installed, then the tensors go through.
NextCodec ==
  \/ last = NoOp /\ updates < MaxCodecUpdates /\ UpdateStep
  \/ EncodeStep
  \/ EncodeBackwardStep
  \/ DecodeStep

SpecCodec == Init /\ [][NextCodec]_vars

\* A run of all_to_all calls and their backwards, under every backend selection.
InitComm == DispatcherInit /\ capacity = 1 /\ CommInit

NextComm ==
  \/ AllToAllForwardStep
  \/ AllToAllBackwardStep

SpecComm == InitComm /\ [][NextComm]_vars

\* A run of expand and contract calls and their backwards; they read nothing of
\* the backend selection, which stays the default one.
InitReduce ==
  /\ DispatcherInit /\ capacity = 1
  /\ CommInit
  /\ has_all_to_all_single = TRUE
  /\ A2A_TYPE = 1

NextReduce ==
  \/ ExpandStep
  \/ ExpandBackwardStep
  \/ ContractStep
  \/ ContractBackwardStep

SpecReduce == InitReduce /\ [][NextReduce]_vars

\* A run in which expand and contract are called on groups of one worker only,
\* between all_to_all calls on any group, under every backend selection.
Singles == {G \in Groups : Cardinality(G) = 1}

NextSingle ==
  \/ AllToAllForwardStep
  \/ AllToAllBackwardStep
  \/ ExpandOn(Singles)
  \/ ExpandBackwardStep
  \/ ContractOn(Singles)
  \/ ContractBackwardStep

SpecSingle == InitComm /\ [][NextSingle]_vars

\* What a caller may pass to the constructor and to update, the values the
\* configuration rules exclude among them: an expert count or a capacity that is
\* not positive, a dispatch_dtype that is not a precision.
ExpertCounts == {-1, 0, NumExperts}

Capacities == (-1)..MaxCap

Requests == Precisions \cup {"int32"}

CapArgsAny == {<<>>} \cup {<<c>> : c \in Capacities}

InitConfig ==
  /\ \E n \in ExpertCounts, cap \in Capacities, dispatch_dtype \in Requests, hip \in BOOLEAN :
       Construct(n, cap, ModelDim, dispatch_dtype, hip)
  /\ CommIdle

NextConfig ==
  updates < MaxConfigUpdates /\ \E a \in Assignments, cap \in CapArgsAny : Update(a, cap)

\* Any construction, then updates with any capacity argument.
SpecConfig == InitConfig /\ [][NextConfig]_vars

\* dispatcher.model_dim = md: model_dim is a plain attribute, which nothing of
\* the dispatcher reads again at update and nothing protects.
SetModelDim(md) ==
  /\ model_dim' = md
  /\ call' = [op |-> "set_model_dim", cap |-> <<>>, raised |-> FALSE]
  /\ UNCHANGED <<expected_sample_size, capacity, kernel_pool, func_fwd, func_bwd_data,
                 func_bwd_gate, ones_helper, indices_, locations_, gates_, build_count,
                 updates, last, num_global_experts, dtype, original_dtype, aligned_dim,
                 IS_HIP_EXTENSION, uninit>>
  /\ UNCHANGED cvars

SetModelDimStep == \E md \in Widths \ {model_dim} : SetModelDim(md)

NextStale ==
  \/ updates < MaxStaleUpdates /\ UpdateStep
  \/ SetModelDimStep

\* Updates, between which the caller may change the dispatcher's model_dim.  No
\* tensor goes through: what the kernels make of a buffer of another width is
\* not defined.
SpecStale == Init /\ [][NextStale]_vars

InitPrecision ==
  /\ \E md \in Widths, dispatch_dtype \in Precisions, hip \in BOOLEAN :
       Construct(NumExperts, 1, md, dispatch_dtype, hip)
  /\ CommIdle

NextPrecision ==
  \/ /\ last = NoOp /\ updates < MaxPrecisionUpdates
     /\ \E a \in AssignmentsOf(1, 1), cap \in CapArgs : Update(a, cap)
  \/ EncodeStep
  \/ EncodeBackwardStep
  \/ DecodeStep

\* One forward pass, of one token with one routing choice, on a dispatcher of any
\* width and requested precision, in a build with or without IS_HIP_EXTENSION.
SpecPrecision == InitPrecision /\ [][NextPrecision]_vars

NextRebind ==
  \/ /\ updates < MaxRebindUpdates
     /\ \E a \in AssignmentsOf(1, 1) : Update(a, <<>>)
  \/ EncodeStep
  \/ EncodeBackwardStep
  \/ DecodeStep
  \/ DecodeBackwardStep

\* Forwards and their backwards on one token with one routing choice, with
\* updates of the same shape and capacity at any point, between a forward and
\* its backward too.
SpecRebind == Init /\ [][NextRebind]_vars

\* ------------------------------------------------------------ routing facts
K == Len(indices_)

S == expected_sample_size

\* Choice i keeps token t: its location is within the capacity.
Kept(i, t) == locations_[i][t] < capacity

\* The row of the dispatch buffer that choice i assigns to token t.
Slot(i, t) == indices_[i][t] * capacity + locations_[i][t] + 1

RECURSIVE RowSum(_)
RowSum(rows) == IF rows = <<>> THEN ZeroRow ELSE RowAdd(rows[1], RowSum(Tail(rows)))

\* The (choice, token) pairs, numbered 1..K*S.
ChoiceOf(p) == ((p - 1) \div S) + 1

TokenOf(p) == ((p - 1) % S) + 1

OnlyGate(i) == [j \in 1..K |-> [t \in 1..S |-> IF j = i THEN gates_[j][t] ELSE 0]]

RECURSIVE Superposed(_, _)
Superposed(expert_output, i) ==
  IF i > K THEN Zeros(S)
  ELSE TensorAdd(GatingDecoder_forward(expert_output, OnlyGate(i)),
                 Superposed(expert_output, i + 1))

\* ------------------------------------------------------------------- claims

\* C1: decode returns, for every token t, the sum over the choices i of
\* gates[i][t] * expert_output[indices[i][t]*capacity + locations[i][t]], a choice
\* whose location is beyond the capacity adding nothing; and the output is the sum
\* over i of the outputs obtained with every gate but gates[i] zeroed.
C1_DecodeCombinesAllChoices ==
  last.op = "decode" =>
    /\ Len(last.out) = S
    /\ \A t \in 1..S :
         last.out[t] = RowSum([i \in 1..K |->
                          IF Kept(i, t) THEN RowScale(gates_[i][t], last.in[Slot(i, t)])
                          ELSE ZeroRow])
    /\ last.out = Superposed(last.in, 1)

C1_Witness ==
  /\ last.op = "decode"
  /\ K = 2
  /\ Kept(1, 1) /\ Kept(2, 1)
  /\ Slot(1, 1) # Slot(2, 1)
  /\ gates_[1][1] # gates_[2][1]
  /\ last.in[Slot(1, 1)] # ZeroRow
  /\ last.in[Slot(2, 1)] # ZeroRow

\* C2 as stated: encode scatters with the first routing choice only; row
\* e*capacity+s of the buffer is the sum of features[t] over the tokens t the first
\* choice puts in slot (e, s), and the choices after the first add nothing.
C2_EncodeFirstChoiceOnly ==
  last.op = "encode" =>
    /\ Len(last.out) = NumExperts * capacity
    /\ \A r \in 1..(NumExperts * capacity) :
         last.out[r] = RowSum([t \in 1..S |->
                          IF Kept(1, t) /\ Slot(1, t) = r THEN last.in[t] ELSE ZeroRow])

\* C2 as amended: encode scatters with every routing choice; row e*capacity+s of
\* the buffer is the sum of features[t] over the pairs (i, t) that choice i puts
\* in slot (e, s), and a row no pair is put in is zero.
C2_EncodeAllChoices ==
  last.op = "encode" =>
    /\ Len(last.out) = NumExperts * capacity
    /\ \A r \in 1..(NumExperts * capacity) :
         last.out[r] = RowSum([p \in 1..(K * S) |->
                          IF Kept(ChoiceOf(p), TokenOf(p)) /\ Slot(ChoiceOf(p), TokenOf(p)) = r
                          THEN last.in[TokenOf(p)] ELSE ZeroRow])

C2_Witness ==
  /\ last.op = "encode"
  /\ K = 2
  /\ Kept(1, 1) /\ Kept(2, 1)
  /\ Slot(1, 1) # Slot(2, 1)
  /\ last.in[1] # ZeroRow

\* What a dropped token leaves behind: the buffer holds exactly the mass of the
\* kept (choice, token) pairs and does not depend on a token every choice drops;
\* the gradient row of a token is the sum of the rows of the choices that keep
\* it, hence zero for a token every choice drops.
DropState ==
  /\ last.op = "encode" =>
       /\ Mass(last.out) = SumSeq([p \in 1..(K * S) |->
                              IF Kept(ChoiceOf(p), TokenOf(p))
                              THEN RowMass(last.in[TokenOf(p)]) ELSE 0])
       /\ \A t \in 1..S :
            (\A i \in 1..K : ~Kept(i, t)) =>
               GatingEncoder_forward([last.in EXCEPT ![t] = ZeroRow]) = last.out
  /\ last.op = "encode_backward" =>
       /\ Len(last.out) = S
       /\ \A t \in 1..S :
            last.out[t] = RowSum([i \in 1..K |->
                             IF Kept(i, t) THEN last.in[Slot(i, t)] ELSE ZeroRow])

\* C3: a token whose location is at or beyond the capacity is dropped silently:
\* encode goes through, the token adds nothing to the buffer under that choice,
\* encode's backward gives it a zero gradient under that choice whatever the
\* incoming gradient, and the gates are left as they were.
C3_CapacityDrop ==
  [][(last' # last /\ last'.op \in {"encode", "encode_backward"}) =>
       (gates_' = gates_ /\ DropState')]_vars

C3_Witness ==
  /\ last.op = "encode_backward"
  /\ \E i \in 1..K, t \in 1..S :
       /\ ~Kept(i, t)
       /\ last.pre[t] # ZeroRow
       /\ Slot(i, t) \in 1..Len(last.in)
       /\ last.in[Slot(i, t)] # ZeroRow

NoOverflow == \A t \in 1..S : Kept(1, t)

DistinctSlots == \A t, u \in 1..S : t # u => Slot(1, t) # Slot(1, u)

RoundTrip ==
  /\ \A t \in 1..S : last.out[t] = RowScale(gates_[1][t], last.pre[t])
  /\ (\A t \in 1..S : gates_[1][t] = 1) => last.out = last.pre

\* C4 as stated: with a single choice and no overflow, decode(encode(x))[t] is
\* gates[0][t] * x[t], the identity when every gate is 1.
C4_RoundTripNoOverflow ==
  (last.op = "decode" /\ last.pre # <<>> /\ K = 1 /\ NoOverflow) => RoundTrip

\* C4 as amended: with a single choice, no overflow and no two tokens in the
\* same slot, decode(encode(x))[t] is gates[0][t] * x[t], the identity when every
\* gate is 1.
C4_RoundTripDistinctSlots ==
  (last.op = "decode" /\ last.pre # <<>> /\ K = 1 /\ NoOverflow /\ DistinctSlots) => RoundTrip

C4_Witness ==
  /\ last.op = "decode" /\ last.pre # <<>>
  /\ K = 1 /\ S = 2
  /\ NoOverflow /\ DistinctSlots
  /\ gates_[1][1] = 2
  /\ last.pre[1] # ZeroRow /\ last.pre[2] # ZeroRow

\* ------------------------------------------------------ claims on the cache

\* C5: the kernels and the helper tensor are built once per distinct
\* (sample_size, capacity) key: an update whose key is in the cache, be it the
\* key of the call before or an older one, builds nothing, an update with a new
\* key builds once, and no entry of the cache is removed, replaced or duplicated.
C5_BuiltOncePerKey ==
  [][updates' = updates + 1 =>
       LET key == <<Len(indices_'[1]), capacity'>>
       IN /\ expected_sample_size' = key[1]
          /\ DOMAIN kernel_pool' = DOMAIN kernel_pool \cup {key}
          /\ \A k \in DOMAIN kernel_pool : kernel_pool'[k] = kernel_pool[k]
          /\ build_count' = build_count + (IF key \in DOMAIN kernel_pool THEN 0 ELSE 1)
          /\ build_count' = Cardinality(DOMAIN kernel_pool')
          /\ \A k1, k2 \in DOMAIN kernel_pool' :
               k1 # k2 => kernel_pool'[k1][1].build # kernel_pool'[k2][1].build]_vars

\* A state after three updates that went to a second key and came back to the
\* first: two builds, and the kernels in use are those of the first build.
C5_Witness ==
  /\ updates = 3
  /\ build_count = 2
  /\ Cardinality(DOMAIN kernel_pool) = 2
  /\ func_fwd.build = 1

\* ------------------------------------------------- claims on the collectives
G0 == comm.group

P0 == Cardinality(comm.group)

\* The backend selection in effect exchanges: it is the standard or the
\* alternate one.
Exchanging == \A w \in G0 : Bit(a2a_type[w], 1) = 1 \/ Bit(a2a_type[w], 2) = 1

\* C6: on a group of P > 1 workers with an exchanging backend, the output of
\* all_to_all on worker w has the shape of its input and its chunk j is chunk w
\* of worker j's input; so all_to_all applied twice returns every worker its
\* original input.
C6_ExchangeAndInvolution ==
  (comm.op = "all_to_all" /\ P0 > 1 /\ Exchanging) =>
    /\ comm.status = "ok"
    /\ \A w \in G0 :
         /\ Len(comm.out[w]) = Len(comm.in[w])
         /\ \A j \in 0..(P0 - 1) :
              Chunk(comm.out[w], j, P0) = Chunk(comm.in[MemberAt(G0, j)], RankIn(G0, w), P0)
    /\ comm.fin # <<>> => comm.out = comm.fin

\* C7: the backward of all_to_all on group G returns for a gradient g what the
\* forward on G returns for g, and it is the adjoint of the forward: summed over
\* the workers, <all_to_all(x), g> = <x, all_to_all(g)>.
C7_BackwardIsForwardAndAdjoint ==
  comm.op = "all_to_all_backward" =>
    /\ comm.status = "ok"
    /\ comm.out = AllToAll_apply(G0, comm.in).out
    /\ Inner(G0, comm.fout, comm.in) = Inner(G0, comm.fin, comm.out)

C7_Witness ==
  /\ comm.op = "all_to_all_backward"
  /\ comm.status = "ok"
  /\ P0 > 1
  /\ comm.out # comm.in
  /\ comm.fout # comm.fin
  /\ Inner(G0, comm.fout, comm.in) > 0

\* C8: on a group of size 1 the forward and the backward of all_to_all, expand
\* and contract return their input unchanged and issue no primitive, whatever
\* the backend selection.
C8_SizeOneIdentity ==
  (comm.op # "none" /\ get_world_size(G0) = 1) =>
    /\ comm.status = "ok"
    /\ comm.out = comm.in
    /\ \A w \in G0 : comm.issued[w] = <<>>

\* A state after the backward of an expand on a group of one worker, in a world
\* of several, under the alternate backend, with a tensor that is not zero.
C8_Witness ==
  /\ comm.op = "expand_backward"
  /\ P0 = 1
  /\ world_size > 1
  /\ \A w \in World : Bit(a2a_type[w], 2) = 1
  /\ \E w \in World : prepared[w]
  /\ \E w \in G0 : SumSeq(comm.in[w]) > 0

\* C9: on a group of P > 1 workers expand gives every worker the concatenation
\* of all the workers' inputs in rank order, contract returns to worker w the
\* sum over the workers of chunk w, and contract(expand(x)) on worker w is
\* P * x_w.
C9_ExpandThenContract ==
  /\ (comm.op = "expand" /\ P0 > 1) =>
       /\ comm.status = "ok"
       /\ \A w \in G0 : comm.out[w] = Concat([j \in 1..P0 |-> comm.in[MemberAt(G0, j - 1)]])
  /\ (comm.op = "contract" /\ P0 > 1) =>
       /\ comm.status = "ok"
       /\ \A w \in G0 :
            comm.out[w] = SeqSum([j \in 1..P0 |->
                                    Chunk(comm.in[MemberAt(G0, j - 1)], RankIn(G0, w), P0)],
                                 Len(comm.in[w]) \div P0)
       /\ comm.fin # <<>> =>
            \A w \in G0 : comm.out[w] = [k \in 1..Len(comm.fin[w]) |-> P0 * comm.fin[w][k]]

\* C10: on a group of P > 1 workers the backward of expand computes what the
\* forward of contract computes (the sum over the workers of shard w, with the
\* shape of expand's input), the backward of contract computes what the forward
\* of expand computes (the concatenation of the workers' gradients in rank order,
\* with the shape of contract's input), and each backward is the adjoint of its
\* forward.
C10_MirroredDuals ==
  /\ (comm.op = "expand_backward" /\ P0 > 1) =>
       /\ comm.status = "ok"
       /\ comm.out = PostAllreduceSum_forward(G0, comm.in).out
       /\ \A w \in G0 :
            /\ Len(comm.out[w]) = Len(comm.fin[w])
            /\ comm.out[w] = SeqSum([j \in 1..P0 |->
                                       Chunk(comm.in[MemberAt(G0, j - 1)], RankIn(G0, w), P0)],
                                    Len(comm.fin[w]))
       /\ Inner(G0, comm.fout, comm.in) = Inner(G0, comm.fin, comm.out)
  /\ (comm.op = "contract_backward" /\ P0 > 1) =>
       /\ comm.status = "ok"
       /\ comm.out = PreAllreduceSum_forward(G0, comm.in).out
       /\ \A w \in G0 :
            /\ Len(comm.out[w]) = Len(comm.fin[w])
            /\ comm.out[w] = Concat([j \in 1..P0 |-> comm.in[MemberAt(G0, j - 1)]])
       /\ Inner(G0, comm.fout, comm.in) = Inner(G0, comm.fin, comm.out)

\* A state after the backward of an expand on three workers, where the gradient
\* of a worker comes from the shard another worker holds.
C10_Witness ==
  /\ comm.op = "expand_backward"
  /\ comm.status = "ok"
  /\ P0 = 3
  /\ \E w \in G0 : comm.out[w] # Chunk(comm.in[w], RankIn(G0, w), P0)
  /\ Inner(G0, comm.fout, comm.in) > 0

\* ------------------------------------------------ claims on the configuration
BadConstruction == capacity <= 0 \/ num_global_experts <= 0 \/ original_dtype \notin Precisions

\* C11: a configuration error fails fast: after a construction with a capacity or
\* an expert count that is not positive, or with a precision that is not one, the
\* call has raised; an update called with a capacity that is not positive raises
\* and leaves the capacity, the expected sample size, the kernels in use and the
\* kernel cache as they were.
C11_ConfigErrorsFailFast ==
  [][/\ (call.op = "init" /\ BadConstruction) => call.raised
     /\ (call'.op = "update" /\ updates' = updates + 1
           /\ call'.cap # <<>> /\ call'.cap[1] <= 0)
          => (/\ call'.raised
              /\ UNCHANGED <<capacity, expected_sample_size, kernel_pool, func_fwd,
                             func_bwd_data, func_bwd_gate, ones_helper>>)]_vars

\* The kernels in use were built for another width than the dispatcher's.
StaleKernels ==
  func_fwd.aligned_dim # model_dim \div (IF func_fwd.dtype = "float16" THEN 2 ELSE 1)

\* C12: an update, encode or decode made while the dispatcher's model dimension
\* differs from the one the kernels of the current key were built with raises a
\* configuration error: no such call goes through with those kernels in use.
C12_StaleKernelRejected ==
  (call.op \in {"update", "encode", "decode"} /\ Installed /\ StaleKernels) => call.raised

\* --------------------------------------------------- claims on the backends
\* The standard primitive was requested and the runtime does not have it.
RequestedAbsent == ~has_all_to_all_single /\ Bit(A2A_TYPE, 1) = 1

\* C13: the selection of a process differs from the requested one only after its
\* first use of all_to_all, only when the requested primitive is absent, and is
\* then the standard primitive; and with the requested primitive absent every
\* all_to_all call on a group of P > 1 workers completes and returns the exchange,
\* not its input.
C13_BackendFallback ==
  /\ \A w \in World :
       a2a_type[w] # A2A_TYPE =>
         (RequestedAbsent /\ prepared[w] /\ Bit(a2a_type[w], 1) = 1)
  /\ (comm.op \in {"all_to_all", "all_to_all_backward"} /\ P0 > 1 /\ RequestedAbsent) =>
       /\ comm.status = "ok"
       /\ comm.out = all_to_all_single(G0, comm.in)

\* The selection with the timing bit set, and with it cleared.
Timed(ty) == ty + 8 * (1 - Bit(ty, 8))

Untimed(ty) == ty - 8 * Bit(ty, 8)

\* The communication primitives among the steps a process issued.
Primitives(issued) ==
  SelectSeq(issued, LAMBDA p : p \notin {"synchronize", "logging.info"})

\* C14: a call of all_to_all returns the same output and issues the same
\* communication primitives whether the backend in effect has its timing variant
\* enabled or not, on every group and input and for each of pass-through,
\* standard and alternate; the report is emitted with timing enabled only, by the
\* worker of rank 0 only.
C14_TimingTransparent ==
  [][(comm'.op = "all_to_all" /\ comm' # comm) =>
       LET G == comm'.group
           x == comm'.in
           timed == AllToAll_apply_with(G, x, [w \in World |-> Timed(a2a_type[w])])
           plain == AllToAll_apply_with(G, x, [w \in World |-> Untimed(a2a_type[w])])
       IN /\ timed.status = plain.status
          /\ timed.out = plain.out
          /\ \A w \in G :
               /\ Primitives(timed.issued[w]) = Primitives(plain.issued[w])
               /\ Primitives(plain.issued[w]) = plain.issued[w]
               /\ \A n \in 1..Len(timed.issued[w]) :
                    timed.issued[w][n] = "logging.info" => get_world_rank(G, w) = 0]_vars

\* ---------------------------------------------------- claims on the precision
Narrow == dtype = "float16"

PrecisionDecision ==
  /\ Narrow <=> (original_dtype = "float16" /\ ~IS_HIP_EXTENSION)
  /\ ~Narrow => dtype = "float32"
  /\ aligned_dim = (IF Narrow THEN model_dim \div 2 ELSE model_dim)
  /\ last.op \in {"encode", "decode"} => last.dtype = original_dtype

\* C15: the working precision is half precision only when half precision was
\* requested and the build supports it, and float32 otherwise; the packed width
\* is model_dim // 2 in the narrow case and model_dim otherwise; no update,
\* encode or decode changes the working precision, the requested precision or
\* the packed width; and every encode and decode result has the requested
\* precision.
C15_PrecisionPolicy ==
  [][/\ PrecisionDecision
     /\ PrecisionDecision'
     /\ UNCHANGED <<dtype, original_dtype, aligned_dim>>]_vars

\* A decode on a dispatcher that works in half precision on a width of two
\* packed into one lane, and returns a float16 tensor that is not zero.
C15_Witness ==
  /\ last.op = "decode"
  /\ Mass(last.out) > 0
  /\ Narrow /\ model_dim = 2 /\ aligned_dim = 1
  /\ last.dtype = "float16"

\* ------------------------------------------------ claims on the negotiation
Issues(w, p) == \E n \in 1..Len(comm.issued[w]) : comm.issued[w][n] = p

\* C16: a process negotiates the handle at most once, on a call with more than
\* one worker and before any earlier call of the process left it prepared, and
\* whenever a process goes into an exchange through the alternate backend the
\* negotiation has completed in that process: in this call, or else in an
\* earlier one, which left it the handle.
C16_NegotiationPrecedesExchange ==
  [][(comm'.op \in {"all_to_all", "all_to_all_backward"} /\ comm' # comm) =>
       \A w \in comm'.group :
         /\ Issues(w, "broadcast")' =>
              (~prepared[w] /\ handle[w] = {} /\ Cardinality(comm'.group) > 1)
         /\ (Issues(w, "external_all2all(-1)")' /\ ~Issues(w, "broadcast")') =>
              handle[w] # {}]_vars

\* The primitive collectives of torch.distributed and the exchange of the
\* alternate backend: the calls in which a worker waits for its peers.
Collective(p) ==
  p \in {"broadcast", "all_to_all_single", "external_all2all(-1)",
         "all_gather", "reduce_scatter"}

Collectives(w) == SelectSeq(comm.issued[w], Collective)

\* C17: when the workers of a group, started with the same backend selection,
\* make the same communication call on the group, every one of them issues the
\* same sequence of primitive collectives, whatever calls each made before on
\* other groups.
C17_SameCollectives ==
  comm.op # "none" =>
    \A v, w \in comm.group : Collectives(v) = Collectives(w)

\* ------------------------------------------- claims on forward and backward
\* The gradients a backward returns when it runs on the dispatcher as the
\* forward saw it: cfg is the Config of the forward's moment.
RECURSIVE ScatterWith(_, _, _, _, _)
ScatterWith(cfg, gates, input, output, i) ==
  IF i > Len(cfg.indices) THEN output
  ELSE ScatterWith(cfg, gates, input,
         RunForward(cfg.fwd, gates[i], cfg.indices[i], cfg.locations[i], input, output, 1),
         i + 1)

RECURSIVE GatherWith(_, _, _, _)
GatherWith(cfg, gates, dispatched, i) ==
  LET one == RunBackwardData(cfg.bwd_data, gates[i], dispatched,
                             cfg.indices[i], cfg.locations[i])
  IN IF i = Len(cfg.indices) THEN one
     ELSE TensorAdd(one, GatherWith(cfg, gates, dispatched, i + 1))

EncodeGradient(cfg, grad) ==
  GatherWith(cfg, [i \in 1..Len(cfg.indices) |-> cfg.ones], grad, 1)

DecodeGradient(cfg, ctx, grad) ==
  [grad_expert_output |->
     ScatterWith(cfg, ctx.gates_h2, grad,
                 [r \in 1..Len(ctx.expert_output) |-> ZeroRow], 1),
   grad_gates |->
     [i \in 1..Len(cfg.indices) |->
        RunBackwardGate(cfg.bwd_gate, ctx.expert_output, cfg.indices[i],
                        cfg.locations[i], grad)]]

\* C18: the backward of an encode or decode returns the gradients computed with
\* the assignment, capacity, sample size and kernels of the moment its forward
\* ran, whatever updates came in between.
C18_BackwardUsesForwardAssignment ==
  /\ last.op = "encode_backward" => last.out = EncodeGradient(last.cfg, last.in)
  /\ last.op = "decode_backward" =>
       /\ last.out = DecodeGradient(last.cfg, last.ctx, last.in).grad_expert_output
       /\ last.aux = DecodeGradient(last.cfg, last.ctx, last.in).grad_gates

\* --------------------------------------------------- claims on the kernels
InUse == <<func_fwd, func_bwd_data, func_bwd_gate, ones_helper>>

BuiltFor(k, sample_size, cap) == k.sample_size = sample_size /\ k.capacity = cap

\* C19: after every update the kernels and the helper tensor in use are the
\* cache entry stored under (expected_sample_size, capacity), the expected
\* sample size is the length of the current indices[0], and the entry was built
\* with that sample size and that capacity.
C19_ActiveKernels ==
  updates > 0 =>
    /\ <<expected_sample_size, capacity>> \in DOMAIN kernel_pool
    /\ InUse = kernel_pool[<<expected_sample_size, capacity>>]
    /\ expected_sample_size = Len(indices_[1])
    /\ BuiltFor(func_fwd, expected_sample_size, capacity)
    /\ BuiltFor(func_bwd_data, expected_sample_size, capacity)
    /\ BuiltFor(func_bwd_gate, expected_sample_size, capacity)
    /\ Len(ones_helper) = expected_sample_size

\* An update has come back to a shape and capacity the cache already held: the
\* kernels in use are not the ones built last.
C19_Witness ==
  /\ updates = MaxUpdates
  /\ call.op = "update"
  /\ Cardinality(DOMAIN kernel_pool) = 2
  /\ build_count = 2
  /\ func_fwd.build = 1
  /\ InUse = kernel_pool[<<expected_sample_size, capacity>>]

\* An update call whose sample size is the expected one and whose capacity is
\* omitted or the current one.
SameShapeUpdate ==
  /\ updates' = updates + 1
  /\ call'.op = "update"
  /\ Len(indices_'[1]) = expected_sample_size
  /\ (call'.cap = <<>> \/ call'.cap = <<capacity>>)

\* C20: an update of the same shape and capacity leaves the capacity, the
\* expected sample size, the kernel cache, the kernels in use and the parameters
\* of the dispatcher as they were, and an update without a capacity keeps the
\* capacity of the update before it, whatever the sample size.
C20_SameShapeFrame ==
  [][/\ SameShapeUpdate =>
          UNCHANGED <<capacity, expected_sample_size, kernel_pool, func_fwd,
                      func_bwd_data, func_bwd_gate, ones_helper, build_count, pvars>>
     /\ (updates' = updates + 1 /\ call'.cap = <<>>) => capacity' = capacity]_vars

\* Two updates of one shape, the second without a capacity, on a capacity other
\* than the smallest: one build, one cache entry.
C20_Witness ==
  /\ updates = 2
  /\ call.op = "update" /\ call.cap = <<>>
  /\ build_count = 1
  /\ DOMAIN kernel_pool = {<<expected_sample_size, capacity>>}
  /\ capacity = MaxCap
====
